---- MODULE Spec2Model ----
(***************************************************************************)
(* The repository synchronization engine of ctxswitch/gdoc                 *)
(* (package syncer: Syncer.Start, Syncer.sync, Syncer.update, Syncer.get,  *)
(* Syncer.clone, Syncer.pull), as one state machine.  The hosting API, the *)
(* filesystem and the timer are the environment.                           *)
(***************************************************************************)
EXTENDS Integers, Sequences, FiniteSets, TLC

VARIABLES
    GithubPollInterval, \* rs.options.GithubPollInterval, a sequence of characters
    pc,                 \* position of the goroutine running Start
    ret,                \* what Start returned: "none" while it runs
    ticker,             \* the time.Ticker of Start: "none", "running", "stopped"
    tickPending,        \* a tick is buffered in ticker.C (capacity 1)
    cancelled,          \* ctx.Done() is closed
    repos,              \* rs.repos: map from key to *Repo
    fs,                 \* the local paths that exist on the filesystem
    result,             \* result.Repositories of the cycle in progress
    idx,                \* index into result of the repository being processed
    r,                  \* the *Repo built for the repository being processed
    log,                \* calls made by the cycle in progress or last finished
    news,               \* per key, how often update inserted it as unseen
    prevFailed,         \* the listing of the cycle before this one failed
    firstLog,           \* the log of the first cycle, where it is kept
    lateCycle,          \* ctx was cancelled already when the last tick was taken
    godoc,              \* position of main's goroutine running Godoc.Start
    wg,                 \* main's WaitGroup: the goroutines not yet done
    main                \* position of main: "wait" or "exited"

vars == <<GithubPollInterval, pc, ret, ticker, tickPending, cancelled,
          repos, fs, result, idx, r, log, news, prevFailed,
          firstLog, lateCycle, godoc, wg, main>>

\* the state of main and of the renderer's goroutine
mainVars == <<godoc, wg, main>>

----------------------------------------------------------------------------
(* Bounds *)

\* commit identifiers are 1..MaxCommit
MaxCommit == 2

Commits == 1..MaxCommit

\* the accounts and repository names the hosting API may return
Owners == {"o"}
Names == {"a", "b"}

\* a repository as returned by Search.Repositories
Remote == [Owner : Owners, Name : Names]

\* the poll-interval strings the configuration may carry
PollIntervals ==
    { <<"5", "m">>,            \* the default of the configuration
      <<>>,                    \* empty
      <<"0">>,                 \* the special case zero
      <<"5">>,                 \* missing unit
      <<"1", "x">>,            \* unknown unit
      <<"m">>,                 \* no digits
      <<"0", "s">>,            \* zero with a unit
      <<"-", "1", "s">>,       \* negative
      <<"+", "0", "m", "s">> } \* signed zero milliseconds

----------------------------------------------------------------------------
(* time.ParseDuration, on strings without '.', in milliseconds *)

Digits == {"0", "1", "2", "3", "4", "5", "6", "7", "8", "9"}

DigitVal(c) ==
    CASE c = "0" -> 0 [] c = "1" -> 1 [] c = "2" -> 2 [] c = "3" -> 3
      [] c = "4" -> 4 [] c = "5" -> 5 [] c = "6" -> 6 [] c = "7" -> 7
      [] c = "8" -> 8 [] c = "9" -> 9

\* unitMap restricted to the units of at least one millisecond
unitMap ==
    [u \in {<<"m", "s">>, <<"s">>, <<"m">>, <<"h">>} |->
        CASE u = <<"m", "s">> -> 1
          [] u = <<"s">> -> 1000
          [] u = <<"m">> -> 60000
          [] u = <<"h">> -> 3600000]

Tail2(s, n) == SubSeq(s, n + 1, Len(s))

\* number of leading characters of s that are digits
RECURSIVE DigitPrefix(_)
DigitPrefix(s) ==
    IF s # <<>> /\ Head(s) \in Digits THEN 1 + DigitPrefix(Tail(s)) ELSE 0

\* number of leading characters of s that are not digits
RECURSIVE UnitPrefix(_)
UnitPrefix(s) ==
    IF s # <<>> /\ Head(s) \notin Digits THEN 1 + UnitPrefix(Tail(s)) ELSE 0

\* leadingInt: the value of a sequence of digits
RECURSIVE leadingInt(_)
leadingInt(s) ==
    IF s = <<>> THEN 0
    ELSE 10 * leadingInt(SubSeq(s, 1, Len(s) - 1)) + DigitVal(s[Len(s)])

\* the loop of ParseDuration: the sum of the (number, unit) terms of s
RECURSIVE ParseTerms(_, _)
ParseTerms(s, d) ==
    IF s = <<>> THEN [err |-> FALSE, d |-> d]
    ELSE IF Head(s) \notin Digits THEN [err |-> TRUE, d |-> 0]
    ELSE LET n == DigitPrefix(s)
             v == leadingInt(SubSeq(s, 1, n))
             rest == Tail2(s, n)
             k == UnitPrefix(rest)
             u == SubSeq(rest, 1, k)
         IN  IF k = 0 THEN [err |-> TRUE, d |-> 0]
             ELSE IF u \notin DOMAIN unitMap THEN [err |-> TRUE, d |-> 0]
             ELSE ParseTerms(Tail2(rest, k), d + v * unitMap[u])

ParseDuration(str) ==
    LET signed == str # <<>> /\ Head(str) \in {"-", "+"}
        neg == str # <<>> /\ Head(str) = "-"
        s == IF signed THEN Tail(str) ELSE str
    IN  IF s = <<"0">> THEN [err |-> FALSE, d |-> 0]
        ELSE IF s = <<>> THEN [err |-> TRUE, d |-> 0]
        ELSE LET p == ParseTerms(s, 0)
             IN  IF p.err THEN p
                 ELSE IF neg THEN [err |-> FALSE, d |-> 0 - p.d]
                 ELSE p

----------------------------------------------------------------------------
(* Repository records *)

NoRepo == [Owner |-> "", Name |-> "", CloneURL |-> "", CommitSHA |-> 0,
           LocalPath |-> ""]

GoRoot == "/go"

\* *repo.FullName and *repo.CloneURL of the API's answer
FullName(repo) == repo.Owner \o "/" \o repo.Name
CloneURL(repo) == "https://github.com/" \o FullName(repo) \o ".git"

\* fmt.Sprintf("%s/src/github.com/%s", rs.options.GoRoot, *repo.FullName)
LocalPath(repo) == GoRoot \o "/src/github.com/" \o FullName(repo)

Paths == {LocalPath(repo) : repo \in Remote}

\* the Repo literal of sync, before the commit is known
NewRepo(repo) ==
    [Owner |-> repo.Owner, Name |-> repo.Name, CloneURL |-> CloneURL(repo),
     CommitSHA |-> 0, LocalPath |-> LocalPath(repo)]

\* the key built without the slash between name and owner
KeyNoSlash(rp) == rp.Name \o rp.Owner

\* the key of update
Key(rp) == rp.Name \o "/" \o rp.Owner

\* Put with the slip of rebuilding the map around the one entry
PutOnly(m, k, v) == [x \in {k} |-> v]

Put(m, k, v) == [x \in DOMAIN m \cup {k} |-> IF x = k THEN v ELSE m[x]]

\* update comparing the *Repo pointers instead of the commits: a known key
\* always counts as changed
updatePointerCompare(m, rp) ==
    [repos |-> Put(m, Key(rp), rp), changed |-> TRUE]

\* update that reports a differing commit but keeps the stored record
updateKeepsOld(m, rp) ==
    LET name == Key(rp)
    IN  IF name \notin DOMAIN m
        THEN [repos |-> Put(m, name, rp), changed |-> TRUE]
        ELSE IF rp.CommitSHA = m[name].CommitSHA
        THEN [repos |-> m, changed |-> FALSE]
        ELSE [repos |-> m, changed |-> TRUE]

\* Syncer.update: the map afterwards and the value returned
update(m, rp) ==
    LET name == Key(rp)
    IN  IF name \notin DOMAIN m
        THEN [repos |-> Put(m, name, rp), changed |-> TRUE]
        ELSE IF rp.CommitSHA = m[name].CommitSHA
        THEN [repos |-> m, changed |-> FALSE]
        ELSE [repos |-> Put(m, name, rp), changed |-> TRUE]

\* os.Stat(r.LocalPath) followed by os.IsNotExist
IsNotExist(files, path) == path \notin files

\* the listings Search.Repositories may return: no repository twice
Listings ==
    {s \in UNION {[1..n -> Remote] : n \in 0..Cardinality(Remote)} :
        \A a, b \in 1..Len(s) : a # b => s[a] # s[b]}

\* one call made by sync: res is "ok" or "err", for update "true" or "false";
\* has tells whether update found the key in the map
Event(op, rp, has, res) ==
    [op |-> op, key |-> Key(rp), sha |-> rp.CommitSHA, has |-> has, res |-> res]

Keys == {Key(NewRepo(repo)) : repo \in Remote}

\* the value of firstLog where the first cycle's log is not kept
NotKept == <<Event("none", NoRepo, FALSE, "")>>

----------------------------------------------------------------------------
(* Initial state: New(options) has run, Start has not *)

Init ==
    /\ GithubPollInterval \in PollIntervals
    /\ pc = "start"
    /\ ret = "none"
    /\ ticker = "none"
    /\ tickPending = FALSE
    /\ cancelled = FALSE
    /\ repos = [k \in {} |-> NoRepo]
    /\ fs \in SUBSET Paths
    /\ result = <<>>
    /\ idx = 0
    /\ r = NoRepo
    /\ log = <<>>
    /\ prevFailed = FALSE
    /\ news = [k \in Keys |-> 0]
    /\ firstLog = NotKept
    /\ lateCycle = FALSE
    /\ godoc = "start"
    /\ wg = {"syncer", "godoc"}
    /\ main = "wait"

----------------------------------------------------------------------------
(* Syncer.Start *)

\* Start dropping the error of ParseDuration and arming the ticker regardless
StartIgnoresErr ==
    /\ pc = "start"
    /\ LET p == ParseDuration(GithubPollInterval)
       IN  IF p.err \/ p.d <= 0
           THEN /\ pc' = "panic"
                /\ UNCHANGED <<ret, ticker>>
           ELSE /\ pc' = "select"
                /\ ticker' = "running"
                /\ ret' = ret
    /\ UNCHANGED <<GithubPollInterval, tickPending, cancelled, repos, fs,
                   result, idx, r, log, news, prevFailed>>
    /\ UNCHANGED <<firstLog, lateCycle, mainVars>>

\* Start calling sync once before it enters the loop
StartPollsFirst ==
    /\ pc = "start"
    /\ LET p == ParseDuration(GithubPollInterval)
       IN  IF p.err
           THEN /\ pc' = "stopped"
                /\ ret' = "err"
                /\ ticker' = ticker
           ELSE IF p.d <= 0
           THEN /\ pc' = "panic"
                /\ UNCHANGED <<ret, ticker>>
           ELSE /\ pc' = "sync"
                /\ ticker' = "running"
                /\ ret' = ret
    /\ UNCHANGED <<GithubPollInterval, tickPending, cancelled, repos, fs,
                   result, idx, r, log, news, prevFailed>>
    /\ UNCHANGED <<firstLog, lateCycle, mainVars>>

\* lines 155-161: parse the interval, arm the ticker
Start ==
    /\ pc = "start"
    /\ LET p == ParseDuration(GithubPollInterval)
       IN  IF p.err
           THEN /\ pc' = "stopped"
                /\ ret' = "err"
                /\ ticker' = ticker
           ELSE IF p.d <= 0
           THEN \* time.NewTicker panics on a non-positive interval
                /\ pc' = "panic"
                /\ UNCHANGED <<ret, ticker>>
           ELSE /\ pc' = "select"
                /\ ticker' = "running"
                /\ ret' = ret
    /\ UNCHANGED <<GithubPollInterval, tickPending, cancelled, repos, fs,
                   result, idx, r, log, news, prevFailed>>
    /\ UNCHANGED <<firstLog, lateCycle, mainVars>>

\* line 164, case <-ticker.C ready: take the buffered tick and call sync
SelectTick ==
    /\ pc = "select"
    /\ tickPending
    /\ tickPending' = FALSE
    /\ pc' = "sync"
    /\ lateCycle' = cancelled
    /\ UNCHANGED <<GithubPollInterval, ret, ticker, cancelled, repos, fs,
                   result, idx, r, log, news, prevFailed>>
    /\ UNCHANGED <<firstLog, mainVars>>

\* line 164, case <-ctx.Done() ready: return nil, the deferred Stop runs
SelectDone ==
    /\ pc = "select"
    /\ cancelled
    /\ pc' = "stopped"
    /\ ret' = "nil"
    /\ ticker' = "stopped"
    /\ UNCHANGED <<GithubPollInterval, tickPending, cancelled, repos, fs,
                   result, idx, r, log, news, prevFailed>>
    /\ UNCHANGED <<firstLog, lateCycle, mainVars>>

\* line 164, no case ready: the goroutine blocks in the select
SelectWait ==
    /\ pc = "select"
    /\ ~tickPending
    /\ ~cancelled
    /\ pc' = "waiting"
    /\ UNCHANGED <<GithubPollInterval, ret, ticker, tickPending, cancelled,
                   repos, fs, result, idx, r, log, news, prevFailed>>
    /\ UNCHANGED <<firstLog, lateCycle, mainVars>>

\* the case <-ctx.Done() returning ctx.Err() instead of nil
ReturnCtxErr ==
    /\ pc = "cancelWake"
    /\ pc' = "stopped"
    /\ ret' = "err"
    /\ ticker' = "stopped"
    /\ UNCHANGED <<GithubPollInterval, tickPending, cancelled, repos, fs,
                   result, idx, r, log, news, prevFailed>>
    /\ UNCHANGED <<firstLog, lateCycle, mainVars>>

\* lines 167-168, for a goroutine the closing of ctx.Done() has woken
ReturnNil ==
    /\ pc = "cancelWake"
    /\ pc' = "stopped"
    /\ ret' = "nil"
    /\ ticker' = "stopped"
    /\ UNCHANGED <<GithubPollInterval, tickPending, cancelled, repos, fs,
                   result, idx, r, log, news, prevFailed>>
    /\ UNCHANGED <<firstLog, lateCycle, mainVars>>

\* Start running sync in a goroutine of its own (go rs.sync(ctx)): a tick
\* that fires during a cycle begins the next one at once
TickStartsCycle ==
    /\ ticker = "running"
    /\ ~tickPending
    /\ IF pc \in {"waiting", "branch", "update", "get", "clone", "pull"}
       THEN pc' = "sync" /\ tickPending' = tickPending
       ELSE pc' = pc /\ tickPending' = TRUE
    /\ UNCHANGED <<GithubPollInterval, ret, ticker, cancelled, repos, fs,
                   result, idx, r, log, news, prevFailed>>
    /\ UNCHANGED <<firstLog, lateCycle, mainVars>>

\* the timer fires: a goroutine blocked in the select receives the tick,
\* otherwise the tick is buffered (a tick is dropped when one is buffered)
Tick ==
    /\ ticker = "running"
    /\ ~tickPending
    /\ IF pc = "waiting"
       THEN pc' = "sync" /\ tickPending' = tickPending /\ lateCycle' = cancelled
       ELSE pc' = pc /\ tickPending' = TRUE /\ lateCycle' = lateCycle
    /\ UNCHANGED <<GithubPollInterval, ret, ticker, cancelled, repos, fs,
                   result, idx, r, log, news, prevFailed>>
    /\ UNCHANGED <<firstLog, mainVars>>

\* a cancellation that does not wake the goroutine blocked in the select
CancelNoWake ==
    /\ ~cancelled
    /\ pc # "panic"
    /\ cancelled' = TRUE
    /\ pc' = pc
    /\ UNCHANGED <<GithubPollInterval, ret, ticker, tickPending, repos, fs,
                   result, idx, r, log, news, prevFailed>>
    /\ UNCHANGED <<firstLog, lateCycle, mainVars>>

\* the shared context is cancelled: a goroutine blocked in the select wakes
\* with the case <-ctx.Done()
Cancel ==
    /\ ~cancelled
    /\ pc # "panic"
    /\ cancelled' = TRUE
    /\ pc' = IF pc = "waiting" THEN "cancelWake" ELSE pc
    /\ UNCHANGED <<GithubPollInterval, ret, ticker, tickPending, repos, fs,
                   result, idx, r, log, news, prevFailed>>
    /\ UNCHANGED <<firstLog, lateCycle, mainVars>>

----------------------------------------------------------------------------
(* Syncer.sync *)

\* the end of one iteration of the range loop of sync (lines 218, 242-243):
\* the next repository, or the return to the select of Start
Continue ==
    IF idx < Len(result)
    THEN /\ idx' = idx + 1
         /\ pc' = "branch"
         /\ result' = result
    ELSE /\ idx' = 0
         /\ pc' = "select"
         /\ result' = <<>>

\* a failed listing escalated out of sync and Start
SearchFailStops ==
    /\ pc = "sync"
    /\ prevFailed' = (log # <<>> /\ log[1].res = "err")
    /\ pc' = "stopped"
    /\ ret' = "err"
    /\ ticker' = "stopped"
    /\ log' = <<Event("Search", NoRepo, FALSE, "err")>>
    /\ UNCHANGED <<GithubPollInterval, tickPending, cancelled,
                   repos, fs, result, idx, r, news>>
    /\ firstLog' = IF firstLog = <<>> THEN log ELSE firstLog
    /\ UNCHANGED <<lateCycle, mainVars>>

\* lines 211-215: Search.Repositories fails (it must, once ctx is cancelled)
SearchFail ==
    /\ pc = "sync"
    /\ prevFailed' = (log # <<>> /\ log[1].res = "err")
    /\ pc' = "select"
    /\ log' = <<Event("Search", NoRepo, FALSE, "err")>>
    /\ UNCHANGED <<GithubPollInterval, ret, ticker, tickPending, cancelled,
                   repos, fs, result, idx, r, news>>
    /\ firstLog' = IF firstLog = <<>> THEN log ELSE firstLog
    /\ UNCHANGED <<lateCycle, mainVars>>

\* sync dropping the records of the repositories the listing no longer has
SearchOkPrunes ==
    /\ pc = "sync"
    /\ prevFailed' = (log # <<>> /\ log[1].res = "err")
    /\ ~cancelled
    /\ \E l \in Listings :
          /\ log' = <<Event("Search", NoRepo, FALSE, "ok")>>
          /\ repos' = [k \in {x \in DOMAIN repos :
                                  \E n \in 1..Len(l) : Key(NewRepo(l[n])) = x}
                          |-> repos[k]]
          /\ IF l = <<>>
             THEN pc' = "select" /\ result' = <<>> /\ idx' = 0
             ELSE pc' = "branch" /\ result' = l /\ idx' = 1
    /\ UNCHANGED <<GithubPollInterval, ret, ticker, tickPending, cancelled,
                   fs, r, news>>
    /\ firstLog' = IF firstLog = <<>> THEN log ELSE firstLog
    /\ UNCHANGED <<lateCycle, mainVars>>

\* Search.Repositories called with a context of its own: the listing is
\* answered after cancellation
SearchOkBackground ==
    /\ pc = "sync"
    /\ prevFailed' = (log # <<>> /\ log[1].res = "err")
    /\ \E l \in Listings :
          /\ log' = <<Event("Search", NoRepo, FALSE, "ok")>>
          /\ IF l = <<>>
             THEN pc' = "select" /\ result' = <<>> /\ idx' = 0
             ELSE pc' = "branch" /\ result' = l /\ idx' = 1
    /\ UNCHANGED <<GithubPollInterval, ret, ticker, tickPending, cancelled,
                   repos, fs, r, news>>
    /\ firstLog' = IF firstLog = <<>> THEN log ELSE firstLog
    /\ UNCHANGED <<lateCycle, mainVars>>

\* lines 211-218: Search.Repositories answers with a listing
SearchOk ==
    /\ pc = "sync"
    /\ prevFailed' = (log # <<>> /\ log[1].res = "err")
    /\ ~cancelled
    /\ \E l \in Listings :
          /\ log' = <<Event("Search", NoRepo, FALSE, "ok")>>
          /\ IF l = <<>>
             THEN pc' = "select" /\ result' = <<>> /\ idx' = 0
             ELSE pc' = "branch" /\ result' = l /\ idx' = 1
    /\ UNCHANGED <<GithubPollInterval, ret, ticker, tickPending, cancelled,
                   repos, fs, r, news>>
    /\ firstLog' = IF firstLog = <<>> THEN log ELSE firstLog
    /\ UNCHANGED <<lateCycle, mainVars>>

\* a failed branch lookup ending the cycle: return in place of continue
GetBranchFailReturns ==
    /\ pc = "branch"
    /\ log' = Append(log, Event("GetBranch", NewRepo(result[idx]), FALSE, "err"))
    /\ r' = NoRepo
    /\ idx' = 0
    /\ pc' = "select"
    /\ result' = <<>>
    /\ UNCHANGED <<GithubPollInterval, ret, ticker, tickPending, cancelled,
                   repos, fs, news, prevFailed>>
    /\ UNCHANGED <<firstLog, lateCycle, mainVars>>

\* sync without the continue of line 229: the failed lookup falls through
GetBranchFailNoContinue ==
    /\ pc = "branch"
    /\ log' = Append(log, Event("GetBranch", NewRepo(result[idx]), FALSE, "err"))
    /\ r' = NewRepo(result[idx])
    /\ pc' = "update"
    /\ UNCHANGED <<GithubPollInterval, ret, ticker, tickPending, cancelled,
                   repos, fs, result, idx, news, prevFailed>>
    /\ UNCHANGED <<firstLog, lateCycle, mainVars>>

\* lines 219-230: GetBranch fails (it must, once ctx is cancelled); continue
GetBranchFail ==
    /\ pc = "branch"
    /\ log' = Append(log, Event("GetBranch", NewRepo(result[idx]), FALSE, "err"))
    /\ r' = NoRepo
    /\ Continue
    /\ UNCHANGED <<GithubPollInterval, ret, ticker, tickPending, cancelled,
                   repos, fs, news, prevFailed>>
    /\ UNCHANGED <<firstLog, lateCycle, mainVars>>

\* sync walking the listing from its end
GetBranchOkReversed ==
    /\ pc = "branch"
    /\ ~cancelled
    /\ \E sha \in Commits :
          /\ r' = [NewRepo(result[Len(result) - idx + 1]) EXCEPT !.CommitSHA = sha]
          /\ log' = Append(log, Event("GetBranch", r', FALSE, "ok"))
    /\ pc' = "update"
    /\ UNCHANGED <<GithubPollInterval, ret, ticker, tickPending, cancelled,
                   repos, fs, result, idx, news, prevFailed>>
    /\ UNCHANGED <<firstLog, lateCycle, mainVars>>

\* GetBranch called with a context of its own: it answers after cancellation
GetBranchOkBackground ==
    /\ pc = "branch"
    /\ \E sha \in Commits :
          /\ r' = [NewRepo(result[idx]) EXCEPT !.CommitSHA = sha]
          /\ log' = Append(log, Event("GetBranch", r', FALSE, "ok"))
    /\ pc' = "update"
    /\ UNCHANGED <<GithubPollInterval, ret, ticker, tickPending, cancelled,
                   repos, fs, result, idx, news, prevFailed>>
    /\ UNCHANGED <<firstLog, lateCycle, mainVars>>

\* lines 219-232: GetBranch answers with the head commit of the default branch
GetBranchOk ==
    /\ pc = "branch"
    /\ ~cancelled
    /\ \E sha \in Commits :
          /\ r' = [NewRepo(result[idx]) EXCEPT !.CommitSHA = sha]
          /\ log' = Append(log, Event("GetBranch", r', FALSE, "ok"))
    /\ pc' = "update"
    /\ UNCHANGED <<GithubPollInterval, ret, ticker, tickPending, cancelled,
                   repos, fs, result, idx, news, prevFailed>>
    /\ UNCHANGED <<firstLog, lateCycle, mainVars>>

\* sync ignoring the value update returns: every repository goes to get
DetectAlwaysGet ==
    /\ pc = "update"
    /\ LET has == Key(r) \in DOMAIN repos
           u == update(repos, r)
       IN  /\ repos' = u.repos
           /\ log' = Append(log, Event("update", r, has,
                                       IF u.changed THEN "true" ELSE "false"))
           /\ news' = IF u.changed /\ ~has
                      THEN [news EXCEPT ![Key(r)] = @ + 1] ELSE news
           /\ pc' = "get" /\ UNCHANGED <<result, idx, r>>
    /\ UNCHANGED <<GithubPollInterval, ret, ticker, tickPending, cancelled, fs,
                   prevFailed>>
    /\ UNCHANGED <<firstLog, lateCycle, mainVars>>

\* sync looking at the local path as well: an unchanged repository whose
\* local path is missing goes to get
DetectRetriesStale ==
    /\ pc = "update"
    /\ LET has == Key(r) \in DOMAIN repos
           u == update(repos, r)
       IN  /\ repos' = u.repos
           /\ log' = Append(log, Event("update", r, has,
                                       IF u.changed THEN "true" ELSE "false"))
           /\ news' = IF u.changed /\ ~has
                      THEN [news EXCEPT ![Key(r)] = @ + 1] ELSE news
           /\ IF u.changed \/ IsNotExist(fs, r.LocalPath)
              THEN pc' = "get" /\ UNCHANGED <<result, idx, r>>
              ELSE r' = NoRepo /\ Continue
    /\ UNCHANGED <<GithubPollInterval, ret, ticker, tickPending, cancelled, fs,
                   prevFailed>>
    /\ UNCHANGED <<firstLog, lateCycle, mainVars>>

\* lines 233-238: call update; continue when it returns false
Detect ==
    /\ pc = "update"
    /\ LET has == Key(r) \in DOMAIN repos
           u == update(repos, r)
       IN  /\ repos' = u.repos
           /\ log' = Append(log, Event("update", r, has,
                                       IF u.changed THEN "true" ELSE "false"))
           /\ news' = IF u.changed /\ ~has
                      THEN [news EXCEPT ![Key(r)] = @ + 1] ELSE news
           /\ IF u.changed
              THEN pc' = "get" /\ UNCHANGED <<result, idx, r>>
              ELSE r' = NoRepo /\ Continue
    /\ UNCHANGED <<GithubPollInterval, ret, ticker, tickPending, cancelled, fs,
                   prevFailed>>
    /\ UNCHANGED <<firstLog, lateCycle, mainVars>>

\* get deciding by the detector's verdict: clone what is new, pull the rest
GetByVerdict ==
    /\ pc = "get"
    /\ pc' = IF ~log[Len(log)].has THEN "clone" ELSE "pull"
    /\ UNCHANGED <<GithubPollInterval, ret, ticker, tickPending, cancelled,
                   repos, fs, result, idx, r, log, news, prevFailed>>
    /\ UNCHANGED <<firstLog, lateCycle, mainVars>>

\* get without the stat of the local path: every repository is cloned
GetAlwaysClone ==
    /\ pc = "get"
    /\ pc' = "clone"
    /\ UNCHANGED <<GithubPollInterval, ret, ticker, tickPending, cancelled,
                   repos, fs, result, idx, r, log, news, prevFailed>>
    /\ UNCHANGED <<firstLog, lateCycle, mainVars>>

\* lines 239, 247-254: Syncer.get chooses between clone and pull
Get ==
    /\ pc = "get"
    /\ pc' = IF IsNotExist(fs, r.LocalPath) THEN "clone" ELSE "pull"
    /\ UNCHANGED <<GithubPollInterval, ret, ticker, tickPending, cancelled,
                   repos, fs, result, idx, r, log, news, prevFailed>>
    /\ UNCHANGED <<firstLog, lateCycle, mainVars>>

\* lines 258-270, 239-241: PlainClone succeeds and the working copy exists
CloneOk ==
    /\ pc = "clone"
    /\ fs' = fs \cup {r.LocalPath}
    /\ log' = Append(log, Event("clone", r, FALSE, "ok"))
    /\ r' = NoRepo
    /\ Continue
    /\ UNCHANGED <<GithubPollInterval, ret, ticker, tickPending, cancelled,
                   repos, news, prevFailed>>
    /\ UNCHANGED <<firstLog, lateCycle, mainVars>>

\* a failed clone taking the record out of the map again
CloneFailRollback ==
    /\ pc = "clone"
    /\ fs' \in {fs, fs \cup {r.LocalPath}}
    /\ log' = Append(log, Event("clone", r, FALSE, "err"))
    /\ repos' = [k \in DOMAIN repos \ {Key(r)} |-> repos[k]]
    /\ r' = NoRepo
    /\ Continue
    /\ UNCHANGED <<GithubPollInterval, ret, ticker, tickPending, cancelled,
                   news, prevFailed>>
    /\ UNCHANGED <<firstLog, lateCycle, mainVars>>

\* lines 258-270, 239-241: PlainClone fails; the directory it made may stay
CloneFail ==
    /\ pc = "clone"
    /\ fs' \in {fs, fs \cup {r.LocalPath}}
    /\ log' = Append(log, Event("clone", r, FALSE, "err"))
    /\ r' = NoRepo
    /\ Continue
    /\ UNCHANGED <<GithubPollInterval, ret, ticker, tickPending, cancelled,
                   repos, news, prevFailed>>
    /\ UNCHANGED <<firstLog, lateCycle, mainVars>>

\* lines 273-294, 239-241: the pull returns, with or without an error
Pull ==
    /\ pc = "pull"
    /\ \E res \in {"ok", "err"} :
          log' = Append(log, Event("pull", r, FALSE, res))
    /\ r' = NoRepo
    /\ Continue
    /\ UNCHANGED <<GithubPollInterval, ret, ticker, tickPending, cancelled,
                   repos, fs, news, prevFailed>>
    /\ UNCHANGED <<firstLog, lateCycle, mainVars>>

----------------------------------------------------------------------------

Next ==
    \/ Start
    \/ SelectTick
    \/ SelectDone
    \/ SelectWait
    \/ ReturnNil
    \/ Tick
    \/ Cancel
    \/ SearchFail
    \/ SearchOk
    \/ GetBranchFail
    \/ GetBranchOk
    \/ Detect
    \/ Get
    \/ CloneOk
    \/ CloneFail
    \/ Pull

Spec == Init /\ [][Next]_vars

\* The first two cycles of a process that starts without local paths, with
\* the log of the first cycle kept in firstLog while the second one runs.
InitTwoCycles ==
    /\ GithubPollInterval \in PollIntervals
    /\ pc = "start"
    /\ ret = "none"
    /\ ticker = "none"
    /\ tickPending = FALSE
    /\ cancelled = FALSE
    /\ repos = [k \in {} |-> NoRepo]
    /\ fs = {}
    /\ result = <<>>
    /\ idx = 0
    /\ r = NoRepo
    /\ log = <<>>
    /\ prevFailed = FALSE
    /\ news = [k \in Keys |-> 0]
    /\ firstLog = <<>>
    /\ lateCycle = FALSE
    /\ godoc = "start"
    /\ wg = {"syncer", "godoc"}
    /\ main = "wait"

\* the listing of the first or second cycle: there is no third one, the
\* listing does not return once firstLog holds the first cycle
SearchFailFirstTwo == firstLog = <<>> /\ SearchFail

SearchOkFirstTwo == firstLog = <<>> /\ SearchOk

TwoCyclesNext ==
    \/ Start
    \/ SelectTick
    \/ SelectDone
    \/ SelectWait
    \/ ReturnNil
    \/ Tick
    \/ Cancel
    \/ SearchFailFirstTwo
    \/ SearchOkFirstTwo
    \/ GetBranchFail
    \/ GetBranchOk
    \/ Detect
    \/ Get
    \/ CloneOk
    \/ CloneFail
    \/ Pull

SpecTwoCycles == InitTwoCycles /\ [][TwoCyclesNext]_vars

----------------------------------------------------------------------------
(* main and Godoc.Start *)

\* what the two goroutines of main share with the syncer is ctx only
syncerData == <<GithubPollInterval, ret, ticker, tickPending, repos, fs,
                result, idx, r, log, news, prevFailed, firstLog, lateCycle>>

\* the deferred cancel() of a goroutine of main: as Cancel, and harmless when
\* the context is cancelled already
DeferredCancel ==
    /\ cancelled' = TRUE
    /\ pc' = IF pc = "waiting" /\ ~cancelled THEN "cancelWake" ELSE pc

\* godoc.go lines 61-65: exec.LookPath finds no godoc
GodocLookPathFail ==
    /\ main = "wait"
    /\ godoc = "start"
    /\ godoc' = "returned"
    /\ UNCHANGED <<syncerData, pc, cancelled, wg, main>>

\* godoc.go lines 61-73: exec.LookPath finds godoc
GodocLookPathOk ==
    /\ main = "wait"
    /\ godoc = "start"
    /\ godoc' = "lookedUp"
    /\ UNCHANGED <<syncerData, pc, cancelled, wg, main>>

\* godoc.go lines 74-78: cmd.Start fails (it does, once ctx is cancelled)
GodocCmdStartFail ==
    /\ main = "wait"
    /\ godoc = "lookedUp"
    /\ godoc' = "returned"
    /\ UNCHANGED <<syncerData, pc, cancelled, wg, main>>

\* godoc.go lines 74-80: cmd.Start starts the child, Start waits for it
GodocCmdStartOk ==
    /\ main = "wait"
    /\ godoc = "lookedUp"
    /\ ~cancelled
    /\ godoc' = "running"
    /\ UNCHANGED <<syncerData, pc, cancelled, wg, main>>

\* godoc.go line 80: the child ends by itself and cmd.Wait returns
GodocExits ==
    /\ main = "wait"
    /\ godoc = "running"
    /\ ~cancelled
    /\ godoc' = "returned"
    /\ UNCHANGED <<syncerData, pc, cancelled, wg, main>>

\* godoc.go lines 73, 80: exec.CommandContext kills the child of a cancelled
\* context and cmd.Wait returns
GodocKilled ==
    /\ main = "wait"
    /\ godoc = "running"
    /\ cancelled
    /\ godoc' = "returned"
    /\ UNCHANGED <<syncerData, pc, cancelled, wg, main>>

\* main.go lines 72-78: godoc.Start has returned; the deferred cancel() and
\* wg.Done() run
GodocDone ==
    /\ main = "wait"
    /\ godoc = "returned"
    /\ godoc' = "exited"
    /\ DeferredCancel
    /\ wg' = wg \ {"godoc"}
    /\ UNCHANGED <<syncerData, main>>

\* the goroutine of the syncer ending without the cancel() of line 65
SyncerDoneNoCancel ==
    /\ main = "wait"
    /\ pc = "stopped"
    /\ "syncer" \in wg
    /\ wg' = wg \ {"syncer"}
    /\ UNCHANGED <<syncerData, pc, cancelled, godoc, main>>

\* main.go lines 63-69: gsync.Start has returned; the deferred cancel() and
\* wg.Done() run
SyncerDone ==
    /\ main = "wait"
    /\ pc = "stopped"
    /\ "syncer" \in wg
    /\ DeferredCancel
    /\ wg' = wg \ {"syncer"}
    /\ UNCHANGED <<syncerData, godoc, main>>

\* main.go lines 63-69 with the panic of time.NewTicker (line 160) going up
\* through Start: the deferred cancel() and wg.Done() run
SyncerPanics ==
    /\ main = "wait"
    /\ pc = "panic"
    /\ "syncer" \in wg
    /\ cancelled' = TRUE
    /\ wg' = wg \ {"syncer"}
    /\ UNCHANGED <<syncerData, pc, godoc, main>>

\* the panic nobody recovers ends the process, whatever main is waiting for
Crash ==
    /\ main = "wait"
    /\ pc = "panic"
    /\ "syncer" \notin wg
    /\ main' = "crashed"
    /\ UNCHANGED <<syncerData, pc, cancelled, godoc, wg>>

\* main.go lines 80-81: wg.Wait() returns and main ends the process
MainExit ==
    /\ main = "wait"
    /\ wg = {}
    /\ main' = "exited"
    /\ UNCHANGED <<syncerData, pc, cancelled, godoc, wg>>

\* the process of main, started without local paths
InitMain ==
    /\ GithubPollInterval \in PollIntervals
    /\ pc = "start"
    /\ ret = "none"
    /\ ticker = "none"
    /\ tickPending = FALSE
    /\ cancelled = FALSE
    /\ repos = [k \in {} |-> NoRepo]
    /\ fs = {}
    /\ result = <<>>
    /\ idx = 0
    /\ r = NoRepo
    /\ log = <<>>
    /\ prevFailed = FALSE
    /\ news = [k \in Keys |-> 0]
    /\ firstLog = NotKept
    /\ lateCycle = FALSE
    /\ godoc = "start"
    /\ wg = {"syncer", "godoc"}
    /\ main = "wait"

\* the steps of the goroutine that runs Syncer.Start
SyncerStep ==
    \/ Start
    \/ SelectTick
    \/ SelectDone
    \/ SelectWait
    \/ ReturnNil
    \/ SearchFail
    \/ SearchOk
    \/ GetBranchFail
    \/ GetBranchOk
    \/ Detect
    \/ Get
    \/ CloneOk
    \/ CloneFail
    \/ Pull

\* the steps of the goroutine that runs Godoc.Start which are bound to come
GodocStep ==
    \/ GodocLookPathFail
    \/ GodocLookPathOk
    \/ GodocCmdStartFail
    \/ GodocCmdStartOk
    \/ GodocKilled
    \/ GodocDone

MainNext ==
    \/ Start
    \/ SelectTick
    \/ SelectDone
    \/ SelectWait
    \/ ReturnNil
    \/ Tick
    \/ Cancel
    \/ SearchFail
    \/ SearchOk
    \/ GetBranchFail
    \/ GetBranchOk
    \/ Detect
    \/ Get
    \/ CloneOk
    \/ CloneFail
    \/ Pull
    \/ GodocLookPathFail
    \/ GodocLookPathOk
    \/ GodocCmdStartFail
    \/ GodocCmdStartOk
    \/ GodocExits
    \/ GodocKilled
    \/ GodocDone
    \/ SyncerDone
    \/ SyncerPanics
    \/ Crash
    \/ MainExit

SpecMain == InitMain /\ [][MainNext]_vars

\* Every call returns and every goroutine is scheduled; the select of Start,
\* which picks at random among its ready cases, does not pass over the ready
\* case <-ctx.Done() for ever.
SpecMainFair ==
    /\ SpecMain
    /\ WF_vars(SyncerStep)
    /\ SF_vars(SelectDone)
    /\ WF_vars(GodocStep)
    /\ WF_vars(SyncerDone)
    /\ WF_vars(SyncerPanics)
    /\ WF_vars(Crash)
    /\ WF_vars(MainExit)

\* The syncer alone, started without local paths, where every call returns
\* and the goroutine of Start is scheduled (weak fairness of its steps).
\* The timer and the cancellation are free to come or not.
SpecLoopFair ==
    /\ InitMain
    /\ [][Next]_vars
    /\ WF_vars(SyncerStep)

----------------------------------------------------------------------------
(* The keys of update over repositories of several owners *)

\* the longest listing of the cycle over several owners
MaxKeyListing == 2

\* owner logins and repository names as the hosting service gives them:
\* letters, digits, "-", and for names "." and "_" as well; never a slash.
\* Chosen so that names and owners put together without a separator meet.
KeyOwners == {"bc", "c"}
KeyNames == {"a", "ab"}
KeyRemote == [Owner : KeyOwners, Name : KeyNames]

KeyKeys == {Key(NewRepo(repo)) : repo \in KeyRemote}

KeyPaths == {LocalPath(repo) : repo \in KeyRemote}

\* the listings over these repositories: no repository twice
KeyListings ==
    {s \in UNION {[1..n -> KeyRemote] : n \in 1..MaxKeyListing} :
        \A a, b \in 1..Len(s) : a # b => s[a] # s[b]}

\* the first cycle of a process, at the point where Search.Repositories has
\* answered with a listing over several owners
InitKeys ==
    /\ GithubPollInterval = <<"5", "m">>
    /\ pc = "branch"
    /\ ret = "none"
    /\ ticker = "running"
    /\ tickPending = FALSE
    /\ cancelled = FALSE
    /\ repos = [k \in {} |-> NoRepo]
    /\ fs \in {{}, KeyPaths}
    /\ result \in KeyListings
    /\ idx = 1
    /\ r = NoRepo
    /\ log = <<Event("Search", NoRepo, FALSE, "ok")>>
    /\ prevFailed = FALSE
    /\ news = [k \in KeyKeys |-> 0]
    /\ firstLog = NotKept
    /\ lateCycle = FALSE
    /\ godoc = "start"
    /\ wg = {"syncer", "godoc"}
    /\ main = "wait"

\* the range loop of sync over that listing
KeysNext ==
    \/ GetBranchFail
    \/ GetBranchOk
    \/ Detect
    \/ Get
    \/ CloneOk
    \/ CloneFail
    \/ Pull

SpecKeys == InitKeys /\ [][KeysNext]_vars

TypeOK ==
    /\ pc \in {"start", "select", "waiting", "cancelWake", "sync", "branch",
                "update", "get", "clone", "pull", "stopped", "panic"}
    /\ ret \in {"none", "nil", "err"}
    /\ ticker \in {"none", "running", "stopped"}
    /\ DOMAIN repos \subseteq Keys
    /\ fs \subseteq Paths
    /\ idx \in 0..Len(result)
    /\ lateCycle \in BOOLEAN

----------------------------------------------------------------------------
(* Properties *)

Last(l) == l[Len(l)]

\* the step in which sync calls update
DetectStep == pc = "update" /\ pc' # "update"

\* the key k has an event of one of the operations ops in the log l
HasEvent(l, k, ops) == \E n \in 1..Len(l) : l[n].key = k /\ l[n].op \in ops

\* C1: a key that is not in the record set is reported New (update returns
\* true) on its first observation, an observation carrying the stored commit
\* is reported Unchanged (update returns false), and over the whole run New
\* is returned exactly once for every key of the record set.
C1_NewExactlyOnce ==
    [][ /\ \A k \in Keys :
             /\ news'[k] <= 1
             /\ (k \in DOMAIN repos') <=> (news'[k] = 1)
        /\ DetectStep =>
             LET k == Key(r)
             IN  /\ k \notin DOMAIN repos =>
                      /\ Last(log').res = "true"
                      /\ news'[k] = news[k] + 1
                 /\ (k \in DOMAIN repos /\ repos[k].CommitSHA = r.CommitSHA) =>
                      /\ Last(log').res = "false"
                      /\ news'[k] = news[k]
      ]_vars

\* a key inserted once has been observed again with the same commit
C1_Witness ==
    \E n \in 1..Len(log) :
        /\ log[n].op = "update"
        /\ log[n].has
        /\ log[n].res = "false"
        /\ news[log[n].key] = 1

\* C2: an observation of a known key with a commit different from the stored
\* one makes update return true, leaves the observed record stored under the
\* key, and sends the repository on to get, which starts a clone or a pull.
C2_Changed ==
    [][ /\ (DetectStep /\ Key(r) \in DOMAIN repos
                       /\ repos[Key(r)].CommitSHA # r.CommitSHA) =>
             /\ Last(log').res = "true"
             /\ Key(r) \in DOMAIN repos'
             /\ repos'[Key(r)].CommitSHA = r.CommitSHA
             /\ repos'[Key(r)] = r
             /\ pc' = "get"
             /\ r' = r
        /\ (pc = "get" /\ pc' # "get") => (pc' \in {"clone", "pull"} /\ r' = r)
      ]_vars

\* a changed repository has had its mirror operation
C2_Witness ==
    \E n \in 1..(Len(log) - 1) :
        /\ log[n].op = "update"
        /\ log[n].has
        /\ log[n].res = "true"
        /\ log[n + 1].op \in {"clone", "pull"}
        /\ log[n + 1].key = log[n].key
        /\ repos[log[n].key].CommitSHA = log[n].sha

\* C3: an observation of a known key with the stored commit makes update
\* return false, leaves the whole record set as it was, and the cycle has no
\* clone and no pull for that repository.
C3_Unchanged ==
    [][ /\ (DetectStep /\ Key(r) \in DOMAIN repos
                       /\ repos[Key(r)].CommitSHA = r.CommitSHA) =>
             /\ Last(log').res = "false"
             /\ repos' = repos
             /\ pc' \in {"branch", "select"}
        /\ \A n \in 1..Len(log') :
             (log'[n].op = "update" /\ log'[n].res = "false") =>
                 /\ ~HasEvent(log', log'[n].key, {"clone", "pull"})
                 /\ (pc' \in {"get", "clone", "pull"} => Key(r') # log'[n].key)
      ]_vars

\* a cycle has finished in which a repository was found unchanged
C3_Witness ==
    /\ pc = "select"
    /\ \E n \in 1..Len(log) : log[n].op = "update" /\ log[n].res = "false"

\* C4: an observation of a key that is not in the record set inserts the
\* observed record (owner, name, cloneURL, commitSHA, localPath) under that
\* key, changes no other key's record, and sends the repository on to get.
C4_New ==
    [][ (DetectStep /\ Key(r) \notin DOMAIN repos) =>
            /\ DOMAIN repos' = DOMAIN repos \cup {Key(r)}
            /\ \A k \in DOMAIN repos : repos'[k] = repos[k]
            /\ repos'[Key(r)].Owner = result[idx].Owner
            /\ repos'[Key(r)].Name = result[idx].Name
            /\ repos'[Key(r)].CloneURL = CloneURL(result[idx])
            /\ repos'[Key(r)].LocalPath = LocalPath(result[idx])
            /\ repos'[Key(r)].CommitSHA = Last(log).sha
            /\ Last(log).op = "GetBranch"
            /\ pc' = "get"
            /\ r' = r
      ]_vars

\* a second key has been inserted next to a first, and is being mirrored
C4_Witness ==
    /\ pc \in {"clone", "pull"}
    /\ Cardinality(DOMAIN repos) = 2
    /\ Last(log).op = "update"
    /\ ~Last(log).has

C6_FailureKeepsRecords ==
    [][ (pc \in {"clone", "pull"} /\ pc' # pc /\ Last(log').res = "err") =>
            /\ repos' = repos
            /\ Key(r) \in DOMAIN repos'
            /\ repos'[Key(r)].CommitSHA = r.CommitSHA
      ]_vars

\* a mirror operation has failed and the record holds the observed commit
C6_Witness ==
    /\ log # <<>>
    /\ Last(log).op \in {"clone", "pull"}
    /\ Last(log).res = "err"
    /\ Last(log).key \in DOMAIN repos
    /\ repos[Last(log).key].CommitSHA = Last(log).sha

\* C7: a failed listing ends the cycle with the record set and the
\* filesystem as they were, without branch lookup or mirror operation, and
\* leaves the scheduler in the select of Start with the ticker running, from
\* where the next tick starts the next cycle.
C7_ListingFailure ==
    [][ (pc = "sync" /\ pc' # "sync" /\ log'[1].res = "err") =>
            /\ repos' = repos
            /\ fs' = fs
            /\ Len(log') = 1
            /\ pc' = "select"
            /\ ret' = "none"
            /\ ticker' = "running"
            /\ result' = <<>>
      ]_vars

\* the cycle after a failed listing has cloned a repository
C7_Witness ==
    /\ prevFailed
    /\ \E n \in 1..Len(log) : log[n].op = "clone" /\ log[n].res = "ok"

\* C8: cancellation raised while the goroutine is blocked in the select
\* wakes it with the case <-ctx.Done(); its next step returns nil, and no
\* sync runs in between.
C8_CancelWhileIdle ==
    [][ /\ (pc = "waiting" /\ ~cancelled /\ cancelled') =>
             /\ pc' = "cancelWake"
             /\ UNCHANGED <<repos, fs, log>>
        /\ pc = "cancelWake" =>
             /\ \/ pc' = "cancelWake"
                \/ pc' = "stopped" /\ ret' = "nil" /\ ticker' = "stopped"
             /\ UNCHANGED <<repos, fs, log>>
      ]_vars

\* cancelled while blocked, with a tick fired since, and still about to stop
C8_Witness ==
    /\ pc = "cancelWake"
    /\ tickPending

\* C9: with a poll interval that does not parse, Start returns the error at
\* once: no ticker, no select, no cycle, no call, an empty record set.
C9_UnparseableInterval ==
    ParseDuration(GithubPollInterval).err =>
        /\ pc \in {"start", "stopped"}
        /\ pc = "stopped" => ret = "err"
        /\ pc = "start" => ret = "none"
        /\ ticker = "none"
        /\ ~tickPending
        /\ DOMAIN repos = {}
        /\ log = <<>>

\* Start has returned the parse error
C9_Witness ==
    /\ ParseDuration(GithubPollInterval).err
    /\ pc = "stopped"
    /\ ret = "err"

\* C10: Start returns an error only for an interval that does not parse; for
\* every interval that parses, zero and negative ones included, it arms the
\* ticker and runs the loop until cancelled, then returns nil.
C10_ErrorOnlyOnParseFailure ==
    /\ ret = "err" => ParseDuration(GithubPollInterval).err
    /\ (~ParseDuration(GithubPollInterval).err /\ pc # "start") =>
           /\ ticker \in {"running", "stopped"}
           /\ pc # "panic"
           /\ pc = "stopped" => (ret = "nil" /\ cancelled)


\* the step in which a branch lookup, a clone or a pull returns an error
FailStep ==
    /\ pc \in {"branch", "clone", "pull"}
    /\ Len(log') = Len(log) + 1
    /\ Last(log').res = "err"

\* C11: a branch lookup, clone or pull that fails for one repository leaves
\* Start running and sends sync on to the next repository of the listing,
\* or, after the last one, back to the select from where later cycles start.
C11_FailureContained ==
    [][ FailStep =>
            /\ ret' = "none"
            /\ ticker' = "running"
            /\ IF idx < Len(result)
               THEN pc' = "branch" /\ idx' = idx + 1 /\ result' = result
               ELSE pc' = "select"
      ]_vars

\* after a failure for one repository another one has been cloned or pulled
C11_Witness ==
    \E n, m \in 1..Len(log) :
        /\ n < m
        /\ log[n].op \in {"GetBranch", "clone", "pull"}
        /\ log[n].res = "err"
        /\ log[m].op \in {"clone", "pull"}
        /\ log[m].res = "ok"
        /\ log[m].key # log[n].key


\* the log l has a successful branch lookup of key k giving commit c
Observed(l, k, c) ==
    \E n \in 1..Len(l) :
        l[n].op = "GetBranch" /\ l[n].res = "ok" /\ l[n].key = k /\ l[n].sha = c

\* the log l has a call of update for key k: has is whether the key was
\* known, res what update returned
Detected(l, k, has, res) ==
    \E n \in 1..Len(l) :
        l[n].op = "update" /\ l[n].key = k /\ l[n].has = has /\ l[n].res = res

\* the log l has a mirror operation op for key k with a result in rs
Mirrored(l, k, op, rs) ==
    \E n \in 1..Len(l) : l[n].op = op /\ l[n].key = k /\ l[n].res \in rs

\* the first cycle is over and its log is kept
FirstCycleDone == firstLog # <<>> /\ firstLog # NotKept

\* the second cycle is over as well
SecondCycleDone ==
    FirstCycleDone /\ pc \notin {"branch", "update", "get", "clone", "pull"}

\* cycle 1 of the scenario: A observed at c1 and B at c2, both reported New
\* and both cloned
FirstCycleOf(A, B, c1, c2) ==
    (Observed(firstLog, A, c1) /\ Observed(firstLog, B, c2)) =>
        /\ Detected(firstLog, A, FALSE, "true")
        /\ Detected(firstLog, B, FALSE, "true")
        /\ Mirrored(firstLog, A, "clone", {"ok", "err"})
        /\ Mirrored(firstLog, B, "clone", {"ok", "err"})
        /\ ~Mirrored(firstLog, A, "pull", {"ok", "err"})
        /\ ~Mirrored(firstLog, B, "pull", {"ok", "err"})

\* the part of cycle 2 on which the scenario and its amendment agree
SecondCycleOf(A, B, c3) ==
    /\ Detected(log, A, TRUE, "false")
    /\ ~HasEvent(log, A, {"clone", "pull"})
    /\ Detected(log, B, TRUE, "true")
    /\ repos[B].CommitSHA = c3

\* C12 as stated: after a first cycle that observed A at c1 and B at c2 with
\* no local path, a second cycle observing A at c1 and B at c3 # c2 finds A
\* Unchanged without mirror operation and B Changed with a pull, and B's
\* record holds c3.
C12_TwoCyclesPull ==
    \A A, B \in Keys : \A c1, c2, c3 \in Commits :
        (A # B /\ c2 # c3 /\ FirstCycleDone) =>
            /\ FirstCycleOf(A, B, c1, c2)
            /\ (/\ SecondCycleDone
                /\ Observed(firstLog, A, c1) /\ Observed(firstLog, B, c2)
                /\ Observed(log, A, c1) /\ Observed(log, B, c3)) =>
                   /\ SecondCycleOf(A, B, c3)
                   /\ Mirrored(log, B, "pull", {"ok", "err"})

\* C12 amended: as C12, but the mirror operation of B in the second cycle is
\* a pull where B's clone of the first cycle succeeded, and is a clone only
\* where that clone failed.
C12_TwoCycles ==
    \A A, B \in Keys : \A c1, c2, c3 \in Commits :
        (A # B /\ c2 # c3 /\ FirstCycleDone) =>
            /\ FirstCycleOf(A, B, c1, c2)
            /\ (/\ SecondCycleDone
                /\ Observed(firstLog, A, c1) /\ Observed(firstLog, B, c2)
                /\ Observed(log, A, c1) /\ Observed(log, B, c3)) =>
                   /\ SecondCycleOf(A, B, c3)
                   /\ HasEvent(log, B, {"clone", "pull"})
                   /\ Mirrored(firstLog, B, "clone", {"ok"}) =>
                          Mirrored(log, B, "pull", {"ok", "err"})
                   /\ Mirrored(log, B, "clone", {"ok", "err"}) =>
                          Mirrored(firstLog, B, "clone", {"err"})

\* both cycles of the scenario have run and B has been pulled
C12_Witness ==
    \E A, B \in Keys : \E c1, c2, c3 \in Commits :
        /\ A # B /\ c2 # c3
        /\ SecondCycleDone
        /\ Observed(firstLog, A, c1) /\ Observed(firstLog, B, c2)
        /\ Observed(log, A, c1) /\ Observed(log, B, c3)
        /\ Mirrored(firstLog, B, "clone", {"ok"})
        /\ Mirrored(log, B, "pull", {"ok", "err"})


\* C13: Start polls nothing at startup: it goes from the arming of the
\* ticker to the select, a tick comes only from the armed ticker, and sync
\* is entered only by taking a tick, buffered or handed to the blocked select.
C13_FirstCycleAfterTick ==
    [][ /\ (pc = "start" /\ pc' # "start") =>
             /\ pc' \in {"select", "stopped", "panic"}
             /\ ~tickPending'
             /\ log' = <<>>
        /\ (tickPending' /\ ~tickPending) => ticker = "running"
        /\ (pc' = "sync" /\ pc # "sync") =>
             /\ ticker = "running"
             /\ \/ pc = "select" /\ tickPending /\ ~tickPending'
                \/ pc = "waiting" /\ ~tickPending /\ ~tickPending'
      ]_vars

\* the first cycle has been started, by a tick
C13_Witness ==
    /\ pc = "sync"
    /\ log = <<>>
    /\ ticker = "running"


\* a step of sync that returns from a call: it adds an event to the log
CallReturns == pc \notin {"sync", "start"} /\ Len(log') = Len(log) + 1

\* C14 as stated: once cancellation is raised during a cycle, sync does not
\* begin the processing (the branch lookup) of another repository.
C14_NoFurtherRepository ==
    [][ cancelled => ~(pc' = "branch" /\ idx' # idx) ]_vars

\* C14 amended: cancellation leaves an update, clone or pull in flight to
\* run to its end; a branch lookup in flight and the lookup of every further
\* repository of the cycle fail, so that no call of update, no clone and no
\* pull is begun for them, and a listing begun after it fails.
C14_CancelDuringCycle ==
    [][ /\ (~cancelled /\ cancelled' /\ pc \in {"update", "get", "clone", "pull"}) =>
             /\ pc' = pc
             /\ UNCHANGED <<r, idx, result, repos, fs, log>>
        /\ (cancelled /\ pc \in {"clone", "pull"} /\ pc' # pc) =>
             /\ CallReturns
             /\ Last(log').op = pc
             /\ Last(log').key = Key(r)
        /\ (cancelled /\ pc = "branch" /\ CallReturns) =>
             /\ Last(log').op = "GetBranch"
             /\ Last(log').res = "err"
             /\ pc' \in {"branch", "select"}
             /\ UNCHANGED <<repos, fs, news>>
        /\ (cancelled /\ pc' = "update") => pc = "update"
        /\ (cancelled /\ pc' \in {"get", "clone", "pull"}) =>
             pc \in {"update", "get", "clone", "pull"}
        /\ (cancelled /\ pc = "sync" /\ pc' # pc) =>
             /\ pc' = "select"
             /\ log'[1].res = "err"
             /\ UNCHANGED <<repos, fs>>
      ]_vars

\* cancelled with a mirror operation in flight: the operation has returned
\* and the lookup of the next repository is about to fail
C14_Witness ==
    /\ cancelled
    /\ pc = "branch"
    /\ idx = 2
    /\ Last(log).op \in {"clone", "pull"}


\* the step in which the branch lookup of a repository returns an error
LookupFails ==
    /\ pc = "branch"
    /\ Len(log') = Len(log) + 1
    /\ Last(log').op = "GetBranch"
    /\ Last(log').res = "err"

\* C15: when the branch lookup of a repository fails, the step leaves the
\* record set, the file system and the count of New verdicts as they were
\* and moves on to the next repository or to the end of the cycle, and the
\* cycle has no call of update, no clone and no pull for that repository.
C15_FailedLookupSkips ==
    [][ /\ LookupFails =>
             /\ Last(log').key = Key(NewRepo(result[idx]))
             /\ UNCHANGED <<repos, fs, news>>
             /\ pc' \in {"branch", "select"}
             /\ r' = NoRepo
        /\ \A n, m \in 1..Len(log') :
             (/\ log'[n].op = "GetBranch"
              /\ log'[n].res = "err"
              /\ log'[m].key = log'[n].key) => log'[m].op = "GetBranch"
      ]_vars

\* a finished cycle in which the lookup of a known repository failed and
\* another repository was mirrored
C15_Witness ==
    /\ pc = "select"
    /\ \E n, m \in 1..Len(log) :
          /\ log[n].op = "GetBranch"
          /\ log[n].res = "err"
          /\ log[n].key \in DOMAIN repos
          /\ log[m].op \in {"clone", "pull"}


\* the mirror operation of key k has failed in the log l
MirrorFailed(l, k) ==
    Mirrored(l, k, "clone", {"err"}) \/ Mirrored(l, k, "pull", {"err"})

\* the cycle of the log has observed k at commit s and is past its update
PastUpdate(k, s) ==
    Observed(log, k, s) /\ (pc = "update" => Key(r) # k)

\* the second of two cycles, for a key whose mirror operation failed in the
\* first one at commit s: observed at s again it is reported Unchanged, no
\* mirror operation is made and the record still holds s
StaleInSecondCycle ==
    \A k \in Keys : \A s \in Commits :
        (/\ FirstCycleDone
         /\ Observed(firstLog, k, s)
         /\ MirrorFailed(firstLog, k)
         /\ PastUpdate(k, s)) =>
            /\ Detected(log, k, TRUE, "false")
            /\ ~HasEvent(log, k, {"clone", "pull"})
            /\ repos[k].CommitSHA = s

Polling == {"sync", "branch", "update", "get", "clone", "pull"}

\* C17: sync is entered only from the select and only when the cycle before
\* has returned (no repository in hand, no listing left); a tick that fires
\* inside a cycle is buffered and changes nothing of the cycle; a clone or
\* pull begins only from get, for the one repository in hand, and has
\* returned before sync goes to another repository or back to the select.
C17_NoOverlap ==
    [][ /\ (pc' = "sync" /\ pc # "sync") =>
             /\ pc \in {"select", "waiting"}
             /\ r = NoRepo /\ result = <<>> /\ idx = 0
        /\ (pc \in Polling /\ tickPending' # tickPending) =>
             /\ tickPending'
             /\ UNCHANGED <<pc, result, idx, r, log, repos, fs>>
        /\ (pc' \in {"clone", "pull"} /\ pc' # pc) =>
             /\ pc = "get"
             /\ r' = r
             /\ Key(r) = Key(NewRepo(result[idx]))
             /\ UNCHANGED <<fs, log>>
        /\ (pc \in {"clone", "pull"} /\ pc' # pc) =>
             /\ CallReturns
             /\ Last(log').op = pc
             /\ Last(log').key = Key(r)
             /\ pc' \in {"branch", "select"}
        /\ (pc \in {"clone", "pull"} /\ pc' = pc) => UNCHANGED <<fs, r, idx>>
      ]_vars

\* the timer has fired while a clone is in progress
C17_Witness == pc = "clone" /\ tickPending /\ Len(log) > 3


\* C18: no step takes a key out of the record set, and the record set is
\* written only by the call of update; a listing without the repository, a
\* failed branch lookup and a failed clone or pull leave it as it is.
C18_RecordsNeverRemoved ==
    [][ /\ DOMAIN repos \subseteq DOMAIN repos'
        /\ repos' # repos => DetectStep
        /\ (pc = "sync" /\ pc' # pc) => repos' = repos
        /\ FailStep => repos' = repos
      ]_vars

\* a cycle over a listing that no longer has a repository of the record set
C18_Witness ==
    /\ pc = "select"
    /\ Len(log) > 1
    /\ \E k \in DOMAIN repos : ~HasEvent(log, k, {"GetBranch"})


\* the place of key k in the listing of the cycle
Pos(k) == CHOOSE j \in 1..Len(result) : Key(NewRepo(result[j])) = k

\* the calls of the cycle so far follow the listing, none beyond idx
OrderedLog ==
    result # <<>> =>
        \A n, m \in 2..Len(log) :
            n < m => /\ Pos(log[n].key) <= Pos(log[m].key)
                     /\ Pos(log[m].key) <= idx

\* the step after which sync is done with the repository in hand
Completes ==
    /\ CallReturns
    /\ \/ Last(log').op = "GetBranch" /\ Last(log').res = "err"
       \/ Last(log').op = "update" /\ Last(log').res = "false"
       \/ Last(log').op \in {"clone", "pull"}

\* C19: every call of a cycle is made for the repository at idx of the
\* listing; idx moves by one, and only in the step that completes the
\* repository in hand; so the calls for a repository earlier in the listing
\* have all returned before the first call for a later one.
C19_ListingOrder ==
    [][ /\ CallReturns => Last(log').key = Key(NewRepo(result[idx]))
        /\ (idx' # idx /\ pc # "sync") =>
             /\ Completes
             /\ idx' = IF idx < Len(result) THEN idx + 1 ELSE 0
        /\ (result' # result /\ pc # "sync") =>
             /\ Completes
             /\ idx = Len(result)
             /\ result' = <<>>
        /\ (CallReturns /\ ~Completes) => UNCHANGED <<idx, result>>
        /\ OrderedLog'
      ]_vars

\* the second repository of a listing is being mirrored after the first was
C19_Witness ==
    /\ pc \in {"clone", "pull"}
    /\ idx = 2
    /\ HasEvent(log, Key(NewRepo(result[1])), {"clone", "pull"})


\* one of the two services has returned from its Start
ServiceReturned == godoc = "returned" \/ pc = "stopped"

\* C20: once the syncer or the renderer has returned from Start, the shared
\* context gets cancelled, both goroutines of main get done and main's
\* wg.Wait() returns, which ends the process.
C20_SharedCancellation ==
    ServiceReturned ~> (cancelled /\ wg = {} /\ main = "exited")


\* C21 as stated: with ctx cancelled Start does not call sync, and an
\* evaluation of the select that finds ctx cancelled ends in the return.
C21_NoCycleAfterCancel ==
    [][ /\ (cancelled /\ pc' = "sync") => pc = "sync"
        /\ (cancelled /\ pc = "select" /\ pc' # pc) => pc' = "stopped"
      ]_vars

\* C21 amended: with ctx cancelled Start calls sync only from a select that
\* finds a tick buffered as well and picks it; that cycle ends at its failed
\* listing, without a repository, back at the select; a select that finds
\* ctx cancelled and no tick returns, and none blocks.
C21_LateCycleIsEmpty ==
    [][ /\ (cancelled /\ pc' = "sync" /\ pc # "sync") =>
             /\ pc = "select"
             /\ tickPending /\ ~tickPending'
             /\ lateCycle'
        /\ (lateCycle' /\ ~lateCycle) => (cancelled /\ pc = "select" /\ pc' = "sync")
        /\ (lateCycle /\ pc = "sync" /\ pc' # pc) =>
             /\ pc' = "select"
             /\ log' = <<Event("Search", NoRepo, FALSE, "err")>>
             /\ UNCHANGED <<repos, fs, result, idx, r, news>>
        /\ (cancelled /\ pc = "select" /\ pc' # pc) =>
             /\ pc' \in {"stopped", "sync"}
             /\ pc' = "sync" => tickPending
             /\ pc' = "stopped" => ret' = "nil"
        /\ lateCycle' => pc' \in {"sync", "select", "stopped"}
      ]_vars

\* a cycle begun after the cancellation has run and is over
C21_Witness ==
    /\ lateCycle
    /\ cancelled
    /\ pc = "select"
    /\ log = <<Event("Search", NoRepo, FALSE, "err")>>


\* Start is in its loop: at the select (Idle) or inside sync (Polling)
InLoop == pc \in {"select", "waiting", "cancelWake"} \cup Polling

Updates(l) == {n \in 1..Len(l) : l[n].op = "update"}

\* C23: different (owner, name) pairs have different keys; so in a first
\* cycle over a listing of different repositories every call of update
\* finds its key absent, reports New, adds one entry and leaves the entries
\* of the others as they are, and every entry is the record of its own key.
C23_KeyInjective ==
    [][ /\ \A p, q \in KeyRemote :
             Key(NewRepo(p)) = Key(NewRepo(q)) => p = q
        /\ DetectStep =>
             /\ Key(r) \notin DOMAIN repos
             /\ Last(log').has = FALSE
             /\ Last(log').res = "true"
             /\ DOMAIN repos' = DOMAIN repos \cup {Key(r)}
             /\ \A k \in DOMAIN repos : repos'[k] = repos[k]
             /\ repos'[Key(r)] = r
        /\ \A k \in DOMAIN repos' :
             /\ Key(repos'[k]) = k
             /\ news'[k] = 1
        /\ Cardinality(DOMAIN repos') = Cardinality(Updates(log'))
      ]_vars

\* both repositories of a listing whose names and owners run into each
\* other without the slash have their own record
C23_Witness ==
    /\ pc = "select"
    /\ \E j, k \in DOMAIN repos :
          /\ repos[j].Name = "a" /\ repos[j].Owner = "bc"
          /\ repos[k].Name = "ab" /\ repos[k].Owner = "c"
          /\ j # k

====
